---- MODULE Spec2Model ----
(***************************************************************************)
(* Buff163-scraper: the price cache (item_overrides.json), its file lock,  *)
(* the retrying scraper and the two refresh drivers of                     *)
(* backend_scraper_app.py, and the stand-alone script scrape_prices.py.    *)
(*                                                                         *)
(* Conventions.  An item name is a sequence of tokens (words, " ", "-",    *)
(* phase tokens), so that the regular expressions of the code act on its   *)
(* structure.  A JSON object is a function whose DOMAIN is its key set.    *)
(* Prices are integers in hundredths.  Time is an integer in ticks,        *)
(* TicksPerDay ticks to the day; tick 0 is the moment the model starts and *)
(* timestamps written before it are negative.  Python's None is NoPrice    *)
(* for a number, the kind "none" for a timestamp, and <<>> for an          *)
(* optional object (<<x>> is the object x).                                *)
(***************************************************************************)
EXTENDS Integers, Sequences, FiniteSets, TLC

\* ------------------------------------------------------------ bounds
TicksPerDay == 2
MaxNow == 1
MaxStarts == 2
MaxCrashes == 1

\* --------------------------------------------------------- constants
STALE_THRESHOLD_DAYS == 7
MAX_SCRAPE_RETRIES == 3
RETRY_DELAY_SECONDS == 5
PACING_DELAY_SECONDS == 2

NoPrice == 0 - 1
NoCount == 0 - 1

\* ------------------------------------------------------------- names
SP == " "
DASH == "-"

\* re.IGNORECASE on a token: the token folded to lower case.
CaseFold(tok) ==
    CASE tok = "Phase 1" -> "phase 1"
      [] tok = "Phase 2" -> "phase 2"
      [] tok = "Phase 3" -> "phase 3"
      [] tok = "Phase 4" -> "phase 4"
      [] tok = "RUBY" -> "ruby"
      [] tok = "Phase 9" -> "phase 9"
      [] tok = "Phase2" -> "phase2"
      [] tok = "Ruby" -> "ruby"
      [] tok = "Sapphire" -> "sapphire"
      [] tok = "Black Pearl" -> "black pearl"
      [] tok = "Emerald" -> "emerald"
      [] tok = "Doppler" -> "doppler"
      [] tok = "Gamma Doppler" -> "gamma doppler"
      [] OTHER -> tok

\* The folded tokens the alternation  Phase\s*\d|Ruby|Sapphire|Black Pearl
\* matches: "Phase", any white space (none included), then any one digit.
PhaseAlternation ==
    {"phase 1", "phase 2", "phase 3", "phase 4", "phase 9", "phase2",
     "ruby", "sapphire", "black pearl"}

\* str.strip() on a token sequence.
RECURSIVE StripLeft(_)
StripLeft(s) ==
    IF s # <<>> /\ Head(s) = SP THEN StripLeft(Tail(s)) ELSE s

RECURSIVE StripRight(_)
StripRight(s) ==
    IF s # <<>> /\ s[Len(s)] = SP THEN StripRight(SubSeq(s, 1, Len(s) - 1)) ELSE s

Strip(s) == StripLeft(StripRight(s))

\* phase_pattern = r'^(.*)\s*-\s*(Phase\s*\d|Ruby|Sapphire|Black Pearl)$'
\* searched with re.IGNORECASE: <<>> when there is no match, else
\* <<[base, phase]>> with group(1).strip() and group(2).strip().
PhaseMatch(name) ==
    IF name = <<>> \/ CaseFold(name[Len(name)]) \notin PhaseAlternation
    THEN <<>>
    ELSE LET before == StripRight(SubSeq(name, 1, Len(name) - 1))
         IN  IF before = <<>> \/ before[Len(before)] # DASH
             THEN <<>>
             ELSE <<[base |-> Strip(SubSeq(before, 1, Len(before) - 1)),
                     phase |-> name[Len(name)]]>>

\* The folded tokens the alternation of the separator correction matches:
\* Phase\s*\d|Ruby|Sapphire|Emerald|Black Pearl
CorrectionAlternation == PhaseAlternation \cup {"emerald"}

FamilyTokens == {"doppler", "gamma doppler"}

\* re.sub(r'(\s(?:Doppler|Gamma Doppler))\s(Phase\s*\d|Ruby|Sapphire|Emerald|Black Pearl)',
\*        r'\1 - \2', name, flags=re.IGNORECASE): every white space standing
\* between a family token (itself after white space) and a phase token
\* becomes " - ".
RECURSIVE CorrectFrom(_, _)
CorrectFrom(name, i) ==
    IF i > Len(name) THEN <<>>
    ELSE IF /\ i >= 3 /\ i < Len(name)
            /\ name[i] = SP
            /\ CaseFold(name[i - 1]) \in FamilyTokens
            /\ name[i - 2] = SP
            /\ CaseFold(name[i + 1]) \in CorrectionAlternation
         THEN <<SP, DASH, SP>> \o CorrectFrom(name, i + 1)
         ELSE <<name[i]>> \o CorrectFrom(name, i + 1)

CorrectSeparator(name) == CorrectFrom(name, 1)

\* ------------------------------------------------------ market table
\* marketids.json: base name -> {"buff": id, "buff_phase": {label: tag}}.
\* has_buff / has_phase say whether the entry has the key at all.
KRedline == <<"AK-47 | Redline">>
KAsiimov == <<"AWP | Asiimov">>
KKnife == <<"Knife", SP, "Doppler">>
KKnifeP2 == KKnife \o <<SP, DASH, SP, "Phase 2">>
KKnifeP2lower == KKnife \o <<SP, DASH, SP, "phase 2">>
KKnifeSapphire == KKnife \o <<SP, DASH, SP, "Sapphire">>
KRedlineP2 == KRedline \o <<SP, DASH, SP, "Phase 2">>
KKnifeRawP2 == KKnife \o <<SP, "Phase 2">>
KKnifeRawSapphire == KKnife \o <<SP, "Sapphire">>
KUnlisted == <<"Unlisted">>
KNoBuff == <<"Sticker | Crown">>

MarketTable ==
    (KRedline :> [has_buff |-> TRUE, buff |-> 123, has_phase |-> FALSE, buff_phase |-> {}])
    @@ (KAsiimov :> [has_buff |-> TRUE, buff |-> 789, has_phase |-> FALSE, buff_phase |-> {}])
    @@ (KKnife :> [has_buff |-> TRUE, buff |-> 456, has_phase |-> TRUE,
                   buff_phase |-> {"Phase 2", "Ruby"}])
    @@ (KNoBuff :> [has_buff |-> FALSE, buff |-> 0, has_phase |-> FALSE, buff_phase |-> {}])

EmptyTable == [n \in {} |-> 0]

\* -------------------------------------------------------- timestamps
\* A "timestamp" value of the document: kind "none" (no such field, or
\* null), "empty" (""), "number" (a non-zero JSON number), "garbage" (a
\* string datetime.fromisoformat rejects), "naive" (an ISO string without
\* offset) or "aware" (an ISO string with offset); t is its instant.
TsNone == [kind |-> "none", t |-> 0]
TsAware(t) == [kind |-> "aware", t |-> t]
TsNaive(t) == [kind |-> "naive", t |-> t]
TsGarbage == [kind |-> "garbage", t |-> 0]
TsEmpty == [kind |-> "empty", t |-> 0]
TsNumber == [kind |-> "number", t |-> 0]

StaleThreshold == STALE_THRESHOLD_DAYS * TicksPerDay

\* A variant that compares with ">=".
is_stale_from_threshold(ts, now) ==
    CASE ts.kind \in {"none", "empty", "garbage", "naive"} -> "stale"
      [] ts.kind = "number" -> "raise"
      [] OTHER -> IF now - ts.t >= StaleThreshold THEN "stale" ELSE "fresh"

\* backend_scraper_app.is_stale: "stale" (True), "fresh" (False) or "raise".
\* "number": timestamp_str.replace raises AttributeError, which the except
\* clause (ValueError, TypeError) does not catch.  "naive": the subtraction
\* aware - naive raises TypeError, which it does catch.
is_stale(ts, now) ==
    CASE ts.kind \in {"none", "empty"} -> "stale"
      [] ts.kind = "number" -> "raise"
      [] ts.kind = "garbage" -> "stale"
      [] ts.kind = "naive" -> "stale"
      [] OTHER -> IF now - ts.t > StaleThreshold THEN "stale" ELSE "fresh"

\* scrape_prices.is_stale: no try/except around datetime.fromisoformat.
script_is_stale(ts, now) ==
    CASE ts.kind \in {"none", "empty"} -> "stale"
      [] ts.kind \in {"number", "garbage"} -> "raise"
      [] OTHER -> IF now - ts.t > StaleThreshold THEN "stale" ELSE "fresh"

\* ------------------------------------------------------------ prices
\* round(yuan_price * YUAN_TO_USD_RATE, 2) with the rate 0.13937312, on
\* hundredths: (y * 13937312 + 5 * 10^7) \div 10^8, computed in two parts
\* to stay inside 32 bits.
UsdOf(y) == (y * 13937 + (y * 312) \div 1000 + 50000) \div 100000

\* ---------------------------------------------------------- documents
\* dict.get(field) on a record of the document; a missing field is None.
GetTs(rec, field) == IF field \in DOMAIN rec THEN rec[field] ELSE TsNone

\* The record update_item_data_safely stores (lines 162-167).
BackendRecord(yuan, usd, t) ==
    [yuan_price |-> yuan, usd_price |-> usd, timestamp |-> TsAware(t)]

\* The record run_automated_scrape stores (scrape_prices.py lines 148-152).
ScriptRecord(usd, t) == [price_usd |-> usd, last_updated |-> TsAware(t)]

EmptyDoc == [k \in {} |-> 0]

\* A variant that builds the document from the new record alone.
PutAlone(doc, key, rec) == [k \in {key} |-> rec]

\* existing_data[item_key] = record
Put(doc, key, rec) ==
    [k \in DOMAIN doc \cup {key} |-> IF k = key THEN rec ELSE doc[k]]

\* A file: st is "absent", "ok" (a complete JSON document, doc), "corrupt"
\* (not JSON, e.g. after a manual edit), "trunc" (zero bytes) or "partial"
\* (the beginning of a document).
AbsentFile == [st |-> "absent", doc |-> EmptyDoc]
OkFile(doc) == [st |-> "ok", doc |-> doc]
BrokenFile(st) == [st |-> st, doc |-> EmptyDoc]
Unparseable == {"corrupt", "trunc", "partial"}

\* Every key the model's documents use, in the order a document lists them.
KeyOrder ==
    <<KRedline, KAsiimov, KKnifeP2, KKnifeP2lower, KKnifeSapphire,
      KRedlineP2, KKnifeRawP2, KKnifeRawSapphire, KUnlisted, KNoBuff>>

Keys == {KeyOrder[i] : i \in 1..Len(KeyOrder)}

\* The keys of doc that satisfy Test, in document order.
KeysWhere(doc, Test(_)) ==
    LET Keep(k) == k \in DOMAIN doc /\ Test(k) IN SelectSeq(KeyOrder, Keep)

\* The fields the records of a document use, in the order they are written.
FieldOrder == <<"yuan_price", "usd_price", "timestamp", "price_usd", "last_updated">>

\* One JSON object as text: its members, <<name, value>>, in order.
dump_record(rec) ==
    LET Has(f) == f \in DOMAIN rec
        fs == SelectSeq(FieldOrder, Has)
    IN  [i \in 1..Len(fs) |-> <<fs[i], rec[fs[i]]>>]

\* json.load of a member list: an object; of a repeated name the last
\* member counts.
load_members(text) ==
    [k \in {text[i][1] : i \in DOMAIN text} |->
        text[CHOOSE i \in DOMAIN text :
                 /\ text[i][1] = k
                 /\ \A j \in DOMAIN text : text[j][1] = k => j <= i][2]]

\* A variant that writes the prices of a record and leaves the rest out.
json_dump_prices_only(doc) ==
    LET Has(k) == k \in DOMAIN doc
        ks == SelectSeq(KeyOrder, Has)
        Prices(rec) == [f \in DOMAIN rec \ {"timestamp", "last_updated"} |-> rec[f]]
    IN  [i \in 1..Len(ks) |-> <<ks[i], dump_record(Prices(doc[ks[i]]))>>]

\* json.dump(data, temp_file, indent=2, ensure_ascii=False), line 113: the
\* text of the document, one member per key, each record with all its
\* fields.
json_dump(doc) ==
    LET Has(k) == k \in DOMAIN doc
        ks == SelectSeq(KeyOrder, Has)
    IN  [i \in 1..Len(ks) |-> <<ks[i], dump_record(doc[ks[i]])>>]

\* json.load(f), lines 59, 119 and 159: the document of a text.
json_load(text) ==
    LET outer == load_members(text)
    IN  [k \in DOMAIN outer |-> load_members(outer[k])]

\* ------------------------------------------------------------- state
Cycles == {"c1", "c2"}
NoOne == "none"

VARIABLES
    file,        \* item_overrides.json
    tmp,         \* the temporary file of save_data_atomic
    lock,        \* the holder of the FileLock, or NoOne
    now,         \* the clock
    market_ids,  \* the content of marketids.json
    items_file,  \* the lines of items_to_scrape.txt
    cyc,         \* per worker: the locals of the request or sweep it runs
    script,      \* the locals of the stand-alone script scrape_prices.py
    probe,       \* the last call of is_stale made on its own
    starts,      \* requests and sweeps started so far
    crashes,     \* process crashes so far
    hist         \* history: what the code has done, for the properties

vars == <<file, tmp, lock, now, market_ids, items_file, cyc, script, probe,
          starts, crashes, hist>>

NoTmp == [st |-> "none", doc |-> EmptyDoc]

\* The locals of a worker that runs nothing.  The fields after "response"
\* are history of the item being refreshed and of the batch: outcome (how
\* scrape_buff_price and the save ended), fetches (attempts on the page),
\* fails (attempts that failed), outcomes (the outcome of each item
\* handled so far), slept (the seconds of the last time.sleep the worker
\* made since its last call of scrape_buff_price or attempt on the page;
\* 0 when it made none), later_reading (whether another worker read the
\* page of the same key after the reading this worker has in hand:
\* "none", "held" when the other worker has that reading in hand too,
\* "stored" when the other worker has persisted it).
IdleCycle ==
    [pc |-> "idle", kind |-> "none", item_to_scrape |-> <<>>, items_list |-> <<>>,
     idx |-> 0, item_key |-> <<>>, existing_data |-> EmptyDoc,
     scraped_item_data |-> <<>>, items_actually_scraped |-> 0,
     buff_id |-> 0, attempt |-> 0, yuan_price |-> NoPrice, usd_price |-> NoPrice,
     data |-> EmptyDoc, validated |-> NoCount, success |-> FALSE,
     response |-> <<>>,
     outcome |-> "none", fetches |-> 0, fails |-> 0, outcomes |-> <<>>,
     slept |-> 0, later_reading |-> "none"]

IdleScript ==
    [pc |-> "idle", items |-> <<>>, idx |-> 0, existing_data |-> EmptyDoc]
NoProbe == [impl |-> "none", ts |-> TsNone, now |-> 0, result |-> "none"]
\* History: persisted (the last record stored for each key), raced (a
\* save was made while another worker was scraping), and, kept when
\* counted is on, per worker the attempts on the page (fetched) and the
\* calls of update_item_data_safely (saves) of the request or sweep it
\* runs.
NoHist ==
    [persisted |-> EmptyDoc, raced |-> FALSE, counted |-> FALSE,
     fetched |-> [c \in Cycles |-> 0], saves |-> [c \in Cycles |-> 0]]

CountFetch(h, c) == IF h.counted THEN [h EXCEPT !.fetched[c] = @ + 1] ELSE h
CountSave(h, c) == IF h.counted THEN [h EXCEPT !.saves[c] = @ + 1] ELSE h
CountAnew(h, c) ==
    IF h.counted THEN [h EXCEPT !.fetched[c] = 0, !.saves[c] = 0] ELSE h

\* ------------------------------------------------- scrape_buff_price
\* A variant that never declines a phased lookup.
DeclinesNothing(m, entry) == FALSE

\* Lines 216-222: the lookup is declined when a phase was matched, the
\* entry has "buff_phase" and the phase, as written, is one of its labels.
DeclinesPhase(m, entry) ==
    m # <<>> /\ entry.has_phase /\ m[1].phase \in entry.buff_phase

\* Lines 186-226: from the name to the page to fetch, or to the reason why
\* (None, None) is returned at once.
Resolve(name, table) ==
    LET m == PhaseMatch(name)
        base == CorrectSeparator(IF m # <<>> THEN m[1].base ELSE name)
    IN  IF base \notin DOMAIN table
        THEN [outcome |-> "LookupNotFound", buff_id |-> 0]
        ELSE IF ~table[base].has_buff
        THEN [outcome |-> "NoBuffId", buff_id |-> 0]
        ELSE IF DeclinesPhase(m, table[base])
        THEN [outcome |-> "PhaseUnsupported", buff_id |-> 0]
        ELSE [outcome |-> "fetch", buff_id |-> table[base].buff]

\* What one attempt on the page can give (lines 230-261): a price text
\* that parses, an exception (timeout, navigation error, float() failing),
\* no price element, or a price text the pattern does not match.
FetchResults(readings) ==
    {[kind |-> "price", yuan |-> y] : y \in readings}
    \cup {[kind |-> k, yuan |-> NoPrice] : k \in {"exception", "no_element", "no_match"}}

\* A variant in which only an exception is retried, as if a missing or
\* unparseable price returned at once (scrape_prices.py lines 117-122).
KeepsTryingAfterException(kind, attempt) ==
    kind = "exception" /\ attempt + 1 < MAX_SCRAPE_RETRIES

\* A variant whose loop makes one attempt more.
KeepsTryingOnceMore(kind, attempt) == attempt < MAX_SCRAPE_RETRIES

\* Line 229: after a failed attempt the loop goes on while attempts remain,
\* whatever the failure was.
KeepsTrying(kind, attempt) == attempt + 1 < MAX_SCRAPE_RETRIES

\* A variant that stores whatever scrape_buff_price returned.
AlwaysPersist(usd) == TRUE

\* Lines 301 and 374: "if usd_price is not None".
ShouldPersist(usd) == usd # NoPrice

\* The locals when scrape_buff_price has returned (price or not): on to
\* update_item_data_safely, or to the pacing sleep.
Returned(l, yuan, usd, outcome) ==
    [l EXCEPT !.yuan_price = yuan, !.usd_price = usd, !.outcome = outcome,
              !.pc = IF ShouldPersist(usd) THEN "upd_acquire" ELSE "pace"]

\* The call scrape_buff_price(item_key, page, market_ids) up to its loop.
BeginScrape(l, key, table) ==
    LET r == Resolve(key, table)
        l1 == [l EXCEPT !.item_key = key, !.slept = 0]
    IN  IF r.outcome = "fetch"
        THEN [l1 EXCEPT !.pc = "fetch", !.buff_id = r.buff_id, !.outcome = "fetching",
                        !.yuan_price = NoPrice, !.usd_price = NoPrice]
        ELSE Returned(l1, NoPrice, NoPrice, r.outcome)

\* Lines 254-263: time.sleep(RETRY_DELAY_SECONDS) is in the except block,
\* under "if attempt < MAX_SCRAPE_RETRIES - 1"; the two else branches
\* (no price element, no match in the price text) only log.
RetryDelay(kind, attempt) ==
    IF kind = "exception" /\ attempt < MAX_SCRAPE_RETRIES - 1
    THEN RETRY_DELAY_SECONDS ELSE 0

\* The worker has a reading of key in hand: scrape_buff_price has returned
\* it and update_item_data_safely has not yet saved or dropped it.
HoldsReading(l, key) ==
    l.pc \in {"upd_acquire", "save_validate"} /\ l.item_key = key

\* History, for a worker with the locals l: another worker has read the
\* page of key, so a reading of key that l has in hand is the older one.
ReadLater(l, key) ==
    IF HoldsReading(l, key) /\ l.later_reading = "none"
    THEN [l EXCEPT !.later_reading = "held"] ELSE l

\* History: the other worker has dropped its reading without saving it.
Dropped(l) ==
    IF l.later_reading = "held" THEN [l EXCEPT !.later_reading = "none"] ELSE l

\* History: the other worker has persisted its reading of key.
Persisted(l, key) ==
    IF HoldsReading(l, key) /\ l.later_reading = "held"
    THEN [l EXCEPT !.later_reading = "stored"] ELSE l

\* One pass of the retry loop, lines 229-263.
FetchAttempt(c, r) ==
    LET l == cyc[c] IN
    /\ l.pc = "fetch"
    /\ cyc' =
         IF r.kind = "price"
         THEN [d \in Cycles |->
                  IF d = c
                  THEN Returned([l EXCEPT !.fetches = @ + 1, !.slept = 0],
                                r.yuan, UsdOf(r.yuan), "scraped")
                  ELSE ReadLater(cyc[d], l.item_key)]
         ELSE LET l1 == [l EXCEPT !.fetches = @ + 1, !.fails = @ + 1, !.attempt = @ + 1,
                                  !.slept = RetryDelay(r.kind, l.attempt)]
              IN  [cyc EXCEPT ![c] =
                      IF KeepsTrying(r.kind, l.attempt)
                      THEN l1
                      ELSE Returned(l1, NoPrice, NoPrice, "FetchExhausted")]
    /\ hist' = CountFetch(hist, c)
    /\ UNCHANGED <<file, tmp, lock, now, market_ids, items_file, script, probe,
                   starts, crashes>>

\* ----------------------------------------------------- the cache file
\* load_existing_data, lines 51-71: {} when the file is absent or is not
\* JSON (json.JSONDecodeError is caught).
ReadDoc(f) == IF f.st = "ok" THEN f.doc ELSE EmptyDoc

\* A variant that merges into the snapshot loaded before scraping.
StaleSnapshot(f, snapshot) == snapshot

\* update_item_data_safely, lines 156-159: the data the new record is
\* merged into is read from the file while the lock is held, not taken
\* from the snapshot the caller loaded before scraping.
LatestData(f, snapshot) == IF f.st = "absent" THEN EmptyDoc ELSE f.doc

\* len(validated_data) as the read-back of the temporary file may report
\* it (line 119): the number written, or one less.
ReadBackCounts(data) ==
    LET n == Cardinality(DOMAIN data) IN IF n > 0 THEN {n, n - 1} ELSE {n}

\* A variant that renames first and validates afterwards.
PromotedBeforeValidation(live, temp) == [st |-> "ok", doc |-> temp.doc]

\* save_data_atomic, lines 118-121 and 135-141: the validation reads the
\* temporary file before anything replaces the live file, so a mismatch
\* leaves the live file as it is.
FileAfterMismatch(live, temp) == live

\* "timestamp_str and ..." : the truth value of a timestamp field.
Truthy(ts) == ts.kind \notin {"none", "empty"}

Response(status, data, total, scraped, cached) ==
    <<[status |-> status, data |-> data, total_items |-> total,
       items_scraped |-> scraped, items_from_cache |-> cached]>>

ErrorResponse == Response("error", <<>>, 0, 0, 0)

\* Variants in which a failed item ends the loop.
StopsAfterFailure(outcome) ==
    outcome \notin {"LookupNotFound", "NoBuffId", "PhaseUnsupported", "FetchExhausted"}

StopsAfterSaveFailure(outcome) == outcome # "SaveFailed"

\* Lines 297 and 348: the for loops have no break and no return; after
\* an item, whatever its outcome, the next one is taken.
ContinuesAfter(outcome) == TRUE

\* The locals of one item (and its history) as they are before the item.
ItemDone(l) ==
    [l EXCEPT !.item_key = <<>>, !.buff_id = 0, !.attempt = 0,
              !.yuan_price = NoPrice, !.usd_price = NoPrice, !.data = EmptyDoc,
              !.validated = NoCount, !.success = FALSE,
              !.outcome = "none", !.fetches = 0, !.fails = 0,
              !.later_reading = "none"]

\* The loop goes to its next item (lines 348 and 297), or ends.
Advance(l) ==
    IF l.idx < Len(l.items_list) /\ ContinuesAfter(l.outcome)
    THEN [ItemDone(l) EXCEPT !.idx = l.idx + 1,
                             !.pc = IF l.kind = "od" THEN "od_item" ELSE "sw_item"]
    ELSE IF l.kind = "od"
    THEN [ItemDone(l) EXCEPT !.idx = l.idx + 1, !.pc = "od_final"]
    ELSE [ItemDone(l) EXCEPT !.idx = l.idx + 1, !.pc = "done",
                   !.response = Response("completed", <<>>, 0, l.items_actually_scraped, 0)]

\* ---------------------------------------------- update_item_data_safely
\* Lines 152-170 and 107-115: take the lock, read the file, put the record
\* in, and (save_data_atomic) write the result to a temporary file:
\* mkstemp, json.dump, flush, fsync.  A live file that is not JSON makes
\* json.load raise: (False, {}) is returned.  An OSError while writing
\* goes to the cleanup of lines 135-145: unlink, return False.
UpdBegin(c, r) ==
    LET l == cyc[c]
        data == Put(LatestData(file, l.existing_data), l.item_key,
                    BackendRecord(l.yuan_price, l.usd_price, now))
    IN
    /\ l.pc = "upd_acquire"
    /\ lock = NoOne
    /\ lock' = c
    /\ IF file.st \in Unparseable
       THEN /\ r = "ok"
            /\ tmp' = tmp
            /\ cyc' = [d \in Cycles |->
                 IF d = c
                 THEN [l EXCEPT !.pc = "upd_return", !.success = FALSE, !.data = EmptyDoc,
                                !.outcome = "SaveFailed", !.later_reading = "none"]
                 ELSE Dropped(cyc[d])]
       ELSE IF r = "oserror"
       THEN /\ tmp' = NoTmp
            /\ cyc' = [d \in Cycles |->
                 IF d = c
                 THEN [l EXCEPT !.pc = "upd_return", !.success = FALSE, !.data = data,
                                !.outcome = "SaveFailed", !.later_reading = "none"]
                 ELSE Dropped(cyc[d])]
       ELSE /\ tmp' = [st |-> "ok", doc |-> json_load(json_dump(data))]
            /\ cyc' = [cyc EXCEPT ![c] = [l EXCEPT !.pc = "save_validate", !.data = data]]
    /\ hist' = CountSave(hist, c)
    /\ UNCHANGED <<file, now, market_ids, items_file, script, probe,
                   starts, crashes>>

\* save_data_atomic, lines 117-145: read the temporary file back and
\* compare the counts; on a mismatch unlink it and return False, else
\* os.replace it over the live file and return True.
SaveCommit(c, n) ==
    LET l == cyc[c] IN
    /\ l.pc = "save_validate"
    /\ n \in ReadBackCounts(l.data)
    /\ tmp' = NoTmp
    /\ IF n # Cardinality(DOMAIN l.data)
       THEN /\ file' = FileAfterMismatch(file, tmp)
            /\ cyc' = [d \in Cycles |->
                 IF d = c
                 THEN [l EXCEPT !.pc = "upd_return", !.validated = n, !.success = FALSE,
                                !.outcome = "SaveFailed", !.later_reading = "none"]
                 ELSE Dropped(cyc[d])]
            /\ hist' = hist
       ELSE /\ file' = OkFile(tmp.doc)
            /\ cyc' = [d \in Cycles |->
                 IF d = c
                 THEN [l EXCEPT !.pc = "upd_return", !.validated = n, !.success = TRUE,
                                !.outcome = "saved", !.later_reading = "none"]
                 ELSE Persisted(cyc[d], l.item_key)]
            /\ hist' = [hist EXCEPT
                 !.persisted = Put(@, l.item_key, l.data[l.item_key]),
                 !.raced = @ \/ \E d \in Cycles \ {c} :
                                   cyc[d].pc \in {"fetch", "upd_acquire"}]
    /\ UNCHANGED <<lock, now, market_ids, items_file, script, probe, starts, crashes>>

\* A variant that releases only at the end of the normal path.
KeptAfterFailure(c, success) == IF success THEN NoOne ELSE c

\* Lines 154 and 58: "with lock:" releases when the block is left, by
\* return or by exception.
LockAfterUpdate(c, success) == NoOne

\* The end of the "with lock" block (line 173) and what the caller does
\* with (success, updated_data): lines 378-387 and 303-307.
UpdReturn(c) ==
    LET l == cyc[c] IN
    /\ l.pc = "upd_return"
    /\ lock' = LockAfterUpdate(c, l.success)
    /\ cyc' = [cyc EXCEPT ![c] =
         IF l.success
         THEN [l EXCEPT !.pc = "pace",
                        !.items_actually_scraped = @ + 1,
                        !.scraped_item_data =
                            IF l.kind = "od" /\ l.item_key = l.item_to_scrape
                            THEN <<l.data[l.item_key]>> ELSE @]
         ELSE [l EXCEPT !.pc = "pace"]]
    /\ UNCHANGED <<file, tmp, now, market_ids, items_file, script, probe,
                   starts, crashes, hist>>

\* A variant that paces only after a stored record.
PaceAfterSuccess(outcome) == IF outcome = "saved" THEN PACING_DELAY_SECONDS ELSE 0

\* Lines 312 and 391-392: time.sleep(2) is the last statement of the loop
\* body (in the endpoint under "if should_scrape"), after the if/else on
\* the result of the scrape and of the save.
PaceDelay(outcome) == PACING_DELAY_SECONDS

\* time.sleep(2) after an item that was scraped or tried (lines 312, 392).
Pace(c) ==
    LET l == cyc[c] IN
    /\ l.pc = "pace"
    /\ cyc' = [cyc EXCEPT ![c] =
         Advance([l EXCEPT !.outcomes = Append(@, l.outcome),
                           !.slept = PaceDelay(l.outcome)])]
    /\ UNCHANGED <<file, tmp, lock, now, market_ids, items_file, script, probe,
                   starts, crashes, hist>>

\* ------------------------------------ scrape_prices_endpoint (on demand)
\* Lines 324-346: the request, the market table, the list of items.
StartOnDemand(c, req) ==
    LET l == cyc[c]
        items == IF req # <<>> THEN <<req>> ELSE items_file
    IN
    /\ l.pc = "idle"
    /\ starts < MaxStarts
    /\ starts' = starts + 1
    /\ cyc' = [cyc EXCEPT ![c] =
         IF market_ids = EmptyTable \/ items = <<>>
         THEN [l EXCEPT !.pc = "done", !.kind = "od", !.item_to_scrape = req,
                        !.items_list = items, !.response = ErrorResponse]
         ELSE [l EXCEPT !.pc = "od_item", !.kind = "od", !.item_to_scrape = req,
                        !.items_list = items, !.idx = 1]]
    /\ UNCHANGED <<file, tmp, lock, now, market_ids, items_file, script, probe,
                   crashes, hist>>

\* Lines 348-372 for one item: correct the name, load the cache under the
\* lock (taken and released inside load_existing_data), decide, and enter
\* scrape_buff_price when the item is to be scraped.  is_stale raising ends
\* the request in the handler of line 419.
OdCheck(c) ==
    LET l == cyc[c]
        item_key == CorrectSeparator(l.items_list[l.idx])
        existing_data == ReadDoc(file)
        ts == IF item_key \in DOMAIN existing_data
              THEN GetTs(existing_data[item_key], "timestamp") ELSE TsNone
        stale == IF Truthy(ts) THEN is_stale(ts, now) ELSE "stale"
        l1 == [l EXCEPT !.item_key = item_key, !.existing_data = existing_data]
    IN
    /\ l.pc = "od_item"
    /\ lock = NoOne
    /\ cyc' = [cyc EXCEPT ![c] =
         CASE stale = "raise" ->
                [l1 EXCEPT !.pc = "done", !.response = ErrorResponse]
           [] stale = "fresh" ->
                Advance([l1 EXCEPT
                    !.outcome = "cached",
                    !.outcomes = Append(@, "cached"),
                    !.scraped_item_data =
                        IF l.item_to_scrape # <<>> THEN <<existing_data[item_key]>> ELSE @])
           [] OTHER -> BeginScrape(l1, item_key, market_ids)]
    /\ UNCHANGED <<file, tmp, lock, now, market_ids, items_file, script, probe,
                   starts, crashes, hist>>

\* A variant that answers with an error when it has no record to return.
ErrorWithoutRecord(item_to_scrape, scraped_item_data) ==
    IF item_to_scrape # <<>> /\ scraped_item_data = <<>> THEN "error" ELSE "success"

\* Lines 408-409: the response built after the loop has "status":
\* "success", with or without a record in "data".
FinalStatus(item_to_scrape, scraped_item_data) == "success"

\* Lines 394-417: the final load_existing_data and the response.
OdFinal(c) ==
    LET l == cyc[c] IN
    /\ l.pc = "od_final"
    /\ lock = NoOne
    /\ cyc' = [cyc EXCEPT ![c] =
         [l EXCEPT !.pc = "done",
                   !.response = Response(FinalStatus(l.item_to_scrape, l.scraped_item_data),
                                         l.scraped_item_data,
                                         Cardinality(DOMAIN ReadDoc(file)),
                                         l.items_actually_scraped,
                                         Len(l.items_list) - l.items_actually_scraped)]]
    /\ UNCHANGED <<file, tmp, lock, now, market_ids, items_file, script, probe,
                   starts, crashes, hist>>

\* The request or the sweep has returned; the worker is free again.
Finish(c) ==
    /\ cyc[c].pc = "done"
    /\ cyc' = [cyc EXCEPT ![c] = IdleCycle]
    /\ hist' = CountAnew(hist, c)
    /\ UNCHANGED <<file, tmp, lock, now, market_ids, items_file, script, probe,
                   starts, crashes>>

\* ------------------------------ perform_scheduled_price_update (sweep)
\* A variant whose handler is "except (ValueError, TypeError)", as the one
\* of is_stale.
SweepCatchesValueErrors(exc) == exc \in {"ValueError", "TypeError"}

\* Line 318: "except Exception" takes whatever is raised inside the sweep;
\* the function then ends by falling off its end.
SweepCatches(exc) == TRUE

\* How the sweep ends when is_stale raises AttributeError: logged and
\* returned ("error"), or raised to the scheduler.
SweepAfterRaise == IF SweepCatches("AttributeError") THEN "error" ELSE "raised"

\* Lines 271-291: the market table, the cache (load_existing_data under
\* the lock), the list of the stale keys.  An exception of is_stale is
\* caught at line 318.
StartSweep(c) ==
    LET l == cyc[c]
        existing_data == ReadDoc(file)
        Verdict(k) == is_stale(GetTs(existing_data[k], "timestamp"), now)
        IsStaleKey(k) == Verdict(k) = "stale"
        stale_items_to_scrape == KeysWhere(existing_data, IsStaleKey)
        l1 == [l EXCEPT !.kind = "sw", !.pc = "done"]
    IN
    /\ l.pc = "idle"
    /\ starts < MaxStarts
    /\ starts' = starts + 1
    /\ market_ids = EmptyTable \/ lock = NoOne
    /\ cyc' = [cyc EXCEPT ![c] =
         CASE market_ids = EmptyTable ->
                [l1 EXCEPT !.response = Response("no_market", <<>>, 0, 0, 0)]
           [] market_ids # EmptyTable
              /\ \E k \in DOMAIN existing_data : Verdict(k) = "raise" ->
                [l1 EXCEPT !.response = Response(SweepAfterRaise, <<>>, 0, 0, 0)]
           [] market_ids # EmptyTable
              /\ (\A k \in DOMAIN existing_data : Verdict(k) # "raise")
              /\ stale_items_to_scrape = <<>> ->
                [l1 EXCEPT !.response = Response("no_stale", <<>>, 0, 0, 0),
                           !.existing_data = existing_data]
           [] OTHER ->
                [l1 EXCEPT !.pc = "sw_item", !.existing_data = existing_data,
                           !.items_list = stale_items_to_scrape, !.idx = 1]]
    /\ UNCHANGED <<file, tmp, lock, now, market_ids, items_file, script, probe,
                   crashes, hist>>

\* Lines 297-299: the next stale key goes to scrape_buff_price as it is.
SwScrape(c) ==
    LET l == cyc[c] IN
    /\ l.pc = "sw_item"
    /\ cyc' = [cyc EXCEPT ![c] = BeginScrape(l, l.items_list[l.idx], market_ids)]
    /\ UNCHANGED <<file, tmp, lock, now, market_ids, items_file, script, probe,
                   starts, crashes, hist>>

\* -------------------------------------------------------- environment
\* The process dies: every request and sweep in it is gone, the operating
\* system drops the lock, and a temporary file being written stays behind,
\* empty or partly written.
Crash ==
    /\ crashes < MaxCrashes
    /\ \E c \in Cycles : cyc[c].pc # "idle"
    /\ crashes' = crashes + 1
    /\ cyc' = [c \in Cycles |-> IdleCycle]
    /\ lock' = NoOne
    /\ IF \E c \in Cycles : cyc[c].pc = "upd_acquire" /\ lock = NoOne
          \* it dies inside save_data_atomic, between mkstemp and fsync
       THEN \E st \in {tmp.st, "trunc", "partial"} :
                tmp' = IF st = tmp.st THEN tmp ELSE [st |-> st, doc |-> EmptyDoc]
       ELSE tmp' = tmp
    /\ UNCHANGED <<file, now, market_ids, items_file, script, probe, starts, hist>>

Tick ==
    /\ now < MaxNow
    /\ now' = now + 1
    /\ UNCHANGED <<file, tmp, lock, market_ids, items_file, cyc, script, probe,
                   starts, crashes, hist>>

\* ------------------------------------------------- the backend service
Days(d) == d * TicksPerDay

\* Records as the backend wrote them some days before the model starts.
OldRecord(days) == BackendRecord(50000, UsdOf(50000), 0 - Days(days))

\* A record that is stale from the start, one that turns stale at the
\* first tick (its age at tick 0 is the threshold exactly), a fresh one.
StaleRecord == [OldRecord(STALE_THRESHOLD_DAYS) EXCEPT !.timestamp = TsAware(0 - StaleThreshold - 1)]
EdgeRecord == OldRecord(STALE_THRESHOLD_DAYS)
FreshRecord == OldRecord(1)

Quiet ==
    /\ tmp = NoTmp
    /\ lock = NoOne
    /\ now = 0
    /\ cyc = [c \in Cycles |-> IdleCycle]
    /\ script = IdleScript
    /\ probe = NoProbe
    /\ starts = 0
    /\ crashes = 0
    /\ hist = NoHist

Init ==
    /\ Quiet
    /\ file = OkFile((KRedline :> StaleRecord) @@ (KAsiimov :> EdgeRecord))
    /\ market_ids = MarketTable
    /\ items_file = <<KRedline, KAsiimov>>

\* What a worker can do next, for the requests and the page readings given.
Step(c, requests, readings) ==
    \/ \E req \in requests : StartOnDemand(c, req)
    \/ OdCheck(c)
    \/ \E r \in FetchResults(readings) : FetchAttempt(c, r)
    \/ \E r \in {"ok", "oserror"} : UpdBegin(c, r)
    \/ \E n \in 0..Cardinality(Keys) : SaveCommit(c, n)
    \/ UpdReturn(c)
    \/ Pace(c)
    \/ OdFinal(c)
    \/ Finish(c)
    \/ StartSweep(c)
    \/ SwScrape(c)

\* Two workers: requests for one key each, and sweeps.
Next ==
    \/ \E c \in Cycles : Step(c, {KRedline, KAsiimov, KKnifeRawSapphire}, {50000})
    \/ Crash
    \/ Tick

Spec == Init /\ [][Next]_vars

\* --------------------------------------------------------- data_status
\* The endpoint /data-status, lines 430-461: the cache loaded under the
\* lock, its records counted as fresh, stale or without timestamp; an
\* exception of is_stale gives the error response of line 461.  Nothing
\* is written.
DataStatus ==
    LET existing_data == ReadDoc(file)
        timestamp(k) == GetTs(existing_data[k], "timestamp")
        missing == {k \in DOMAIN existing_data : ~Truthy(timestamp(k))}
        dated == DOMAIN existing_data \ missing
        stale == {k \in dated : is_stale(timestamp(k), now) = "stale"}
        stats == [status |-> "success",
                  total_items |-> Cardinality(DOMAIN existing_data),
                  fresh_items |-> Cardinality(dated \ stale),
                  stale_items |-> Cardinality(stale),
                  missing_timestamp |-> Cardinality(missing)]
    IN
    /\ lock = NoOne
    /\ probe' = [impl |-> "data_status", ts |-> TsNone, now |-> 0,
                 result |-> IF \E k \in dated : is_stale(timestamp(k), now) = "raise"
                            THEN [status |-> "error"] ELSE stats]
    /\ UNCHANGED <<file, tmp, lock, now, market_ids, items_file, cyc, script,
                   starts, crashes, hist>>

\* Two workers (requests for one key, sweeps) and readers of /data-status,
\* over a cache whose two records are stale.
InitLife ==
    /\ Quiet
    /\ file = OkFile((KRedline :> StaleRecord) @@ (KAsiimov :> StaleRecord))
    /\ market_ids = MarketTable
    /\ items_file = <<KRedline, KAsiimov>>

NextLife ==
    \/ \E c \in Cycles : Step(c, {KRedline, KAsiimov}, {50000})
    \/ DataStatus

SpecLife == InitLife /\ [][NextLife]_vars

\* One worker: requests with and without a key, names of every shape, a
\* market table that may be missing, a cache that may be unreadable.
BatchLists ==
    {<<>>, <<KUnlisted, KKnifeP2, KRedline, KAsiimov>>,
     <<KNoBuff, KKnifeP2lower, KKnifeRawP2>>}

BatchRequests ==
    {<<>>, KRedline, KKnifeP2, KKnifeP2lower, KKnifeSapphire, KRedlineP2,
     KKnifeRawP2, KUnlisted}

\* The files the service may find when it starts: the cache, the market
\* table, the item list.
BatchFiles ==
    LET Files(f, m, l) == [file |-> f, market_ids |-> m, items_file |-> l]
        list1 == <<KUnlisted, KKnifeP2, KRedline, KAsiimov>>
        list2 == <<KNoBuff, KKnifeP2lower, KKnifeRawP2>>
    IN  {Files(AbsentFile, MarketTable, list1),
         Files(AbsentFile, MarketTable, list2),
         Files(AbsentFile, MarketTable, <<>>),
         Files(AbsentFile, EmptyTable, list1),
         Files(BrokenFile("corrupt"), MarketTable, list2),
         Files(OkFile((KUnlisted :> StaleRecord) @@ (KKnifeP2 :> StaleRecord)
                      @@ (KRedline :> EdgeRecord) @@ (KAsiimov :> FreshRecord)),
               MarketTable, list1),
         Files(OkFile((KRedline :> [StaleRecord EXCEPT !.timestamp = TsGarbage])
                      @@ (KKnifeSapphire :> [FreshRecord EXCEPT !.timestamp = TsNaive(0)])
                      @@ (KKnifeRawP2 :> StaleRecord)
                      @@ (KKnifeRawSapphire :> StaleRecord)),
               MarketTable, list1),
         Files(OkFile((KRedline :> FreshRecord)
                      @@ (KAsiimov :> [yuan_price |-> 50000, usd_price |-> UsdOf(50000)])),
               MarketTable, list1),
         Files(OkFile((KRedline :> [FreshRecord EXCEPT !.timestamp = TsNumber])
                      @@ (KAsiimov :> StaleRecord)),
               MarketTable, list1)}

InitBatch ==
    /\ Quiet
    /\ \E f \in BatchFiles :
          /\ file = f.file
          /\ market_ids = f.market_ids
          /\ items_file = f.items_file

NextBatch ==
    \/ Step("c1", BatchRequests, {725})
    \/ Crash
    \/ Tick

SpecBatch == InitBatch /\ [][NextBatch]_vars

\* ------------------------------------------------- is_stale on its own
ProbeTimes == (0 - StaleThreshold - 2)..0

ProbeTimestamps ==
    {TsNone, TsEmpty, TsNumber, TsGarbage}
    \cup {TsAware(t) : t \in ProbeTimes} \cup {TsNaive(t) : t \in ProbeTimes}

InitStale ==
    /\ Quiet
    /\ file = AbsentFile
    /\ market_ids = MarketTable
    /\ items_file = <<>>

\* A call is_stale(timestamp_str) of backend_scraper_app.py at time now.
ProbeBackend(ts) ==
    /\ probe' = [impl |-> "backend", ts |-> ts, now |-> now, result |-> is_stale(ts, now)]
    /\ UNCHANGED <<file, tmp, lock, now, market_ids, items_file, cyc, script,
                   starts, crashes, hist>>

\* A call is_stale(timestamp_str) of scrape_prices.py at time now.
ProbeScript(ts) ==
    /\ probe' = [impl |-> "script", ts |-> ts, now |-> now,
                 result |-> script_is_stale(ts, now)]
    /\ UNCHANGED <<file, tmp, lock, now, market_ids, items_file, cyc, script,
                   starts, crashes, hist>>

NextStale ==
    \/ \E ts \in ProbeTimestamps : ProbeBackend(ts)
    \/ \E ts \in ProbeTimestamps : ProbeScript(ts)
    \/ Tick

SpecStale == InitStale /\ [][NextStale]_vars

\* --------------------------------------------------- termination
\* Two workers over a cache with two stale records: one runs sweeps, the
\* other requests for the item list, whose items are not to be had, so
\* that it takes the lock only to read.  Attempts and saves are counted.
InitTerm ==
    /\ tmp = NoTmp
    /\ lock = NoOne
    /\ now = 0
    /\ cyc = [c \in Cycles |-> IdleCycle]
    /\ script = IdleScript
    /\ probe = NoProbe
    /\ starts = 0
    /\ crashes = 0
    /\ hist = [NoHist EXCEPT !.counted = TRUE]
    /\ file = OkFile((KRedline :> StaleRecord) @@ (KAsiimov :> StaleRecord))
    /\ market_ids = MarketTable
    /\ items_file = <<KUnlisted, KNoBuff>>

\* The steps of a request or sweep that has started, up to its return.
Work(c) ==
    \/ OdCheck(c)
    \/ \E r \in FetchResults({50000}) : FetchAttempt(c, r)
    \/ \E r \in {"ok", "oserror"} : UpdBegin(c, r)
    \/ \E n \in 0..Cardinality(Keys) : SaveCommit(c, n)
    \/ UpdReturn(c)
    \/ Pace(c)
    \/ OdFinal(c)
    \/ SwScrape(c)

NextTerm ==
    \/ StartSweep("c1")
    \/ StartOnDemand("c2", <<>>)
    \/ \E c \in Cycles : Work(c)
    \/ \E c \in Cycles : Finish(c)

\* Every attempt on the page returns or times out, every holder of the
\* lock leaves its "with" block, and a thread that can run does run.
SpecTerm ==
    InitTerm /\ [][NextTerm]_vars /\ \A c \in Cycles : WF_vars(Work(c))

\* ------------------------------------------------ the phase pattern
\* Names to split: a base, then nothing or a separator and a last token.
SplitBases == {KRedline, KAsiimov, KKnife}

SplitSeparators == {<<SP, DASH, SP>>, <<DASH>>, <<SP>>}

SplitTokens ==
    {"Phase 1", "Phase 2", "Phase 3", "Phase 4", "phase 2", "Phase 9", "Phase2",
     "Ruby", "RUBY", "Sapphire", "Black Pearl", "Emerald", "Factory New"}

SplitNames ==
    SplitBases
    \cup {b \o sep \o <<tok>> : b \in SplitBases, sep \in SplitSeparators,
                                tok \in SplitTokens}

InitSplit ==
    /\ Quiet
    /\ file = AbsentFile
    /\ market_ids = MarketTable
    /\ items_file = <<>>

\* The first lines of scrape_buff_price(name, ...), 186-196: the match of
\* phase_pattern, base_item_name and phase_name.
SplitPhase(name) ==
    /\ probe' = [impl |-> "split_phase", ts |-> TsNone, now |-> 0,
                 result |-> [name |-> name, match |-> PhaseMatch(name)]]
    /\ UNCHANGED <<file, tmp, lock, now, market_ids, items_file, cyc, script,
                   starts, crashes, hist>>

NextSplit == \E name \in SplitNames : SplitPhase(name)

SpecSplit == InitSplit /\ [][NextSplit]_vars

\* ------------------------------------------- scrape_prices.py (script)
\* scrape_buff_price of the script, lines 56-92: as Resolve, without the
\* separator correction.
ScriptResolve(name, table) ==
    LET m == PhaseMatch(name)
        base == IF m # <<>> THEN m[1].base ELSE name
    IN  IF base \notin DOMAIN table
        THEN [outcome |-> "LookupNotFound", buff_id |-> 0]
        ELSE IF ~table[base].has_buff
        THEN [outcome |-> "NoBuffId", buff_id |-> 0]
        ELSE IF DeclinesPhase(m, table[base])
        THEN [outcome |-> "PhaseUnsupported", buff_id |-> 0]
        ELSE [outcome |-> "fetch", buff_id |-> table[base].buff]

\* The loop of run_automated_scrape goes to its next item (line 137).
ScriptAdvance(l) ==
    [l EXCEPT !.idx = @ + 1, !.pc = IF l.idx < Len(l.items) THEN "item" ELSE "done"]

\* main, lines 208-214, and run_automated_scrape up to its loop: the item
\* list, the cache read once and without the lock, the market table.
ScriptStart ==
    /\ script.pc = "idle"
    /\ starts < MaxStarts
    /\ starts' = starts + 1
    /\ script' = IF market_ids = EmptyTable \/ items_file = <<>>
                 THEN [script EXCEPT !.pc = "done", !.existing_data = ReadDoc(file)]
                 ELSE [script EXCEPT !.pc = "item", !.items = items_file, !.idx = 1,
                                     !.existing_data = ReadDoc(file)]
    /\ UNCHANGED <<file, tmp, lock, now, market_ids, items_file, cyc, probe,
                   crashes, hist>>

\* One item of run_automated_scrape, lines 137-155, with the one attempt
\* of the script's scrape_buff_price (lines 96-128): skip a fresh item; let
\* the exception of is_stale end the script; store the scraped record in
\* the snapshot and go on to save_data; or sleep and go to the next item.
ScriptItem(r) ==
    LET l == script
        item == l.items[l.idx]
        last_updated == IF item \in DOMAIN l.existing_data
                        THEN GetTs(l.existing_data[item], "last_updated") ELSE TsNone
        stale == IF Truthy(last_updated) THEN script_is_stale(last_updated, now) ELSE "stale"
        found == ScriptResolve(item, market_ids)
    IN
    /\ l.pc = "item"
    /\ script' =
         CASE stale = "raise" -> [l EXCEPT !.pc = "crashed"]
           [] stale = "fresh" -> ScriptAdvance(l)
           [] stale = "stale" /\ found.outcome = "fetch" /\ r.kind = "price" ->
                [l EXCEPT !.pc = "open",
                          !.existing_data = Put(@, item, ScriptRecord(UsdOf(r.yuan), now))]
           [] OTHER -> ScriptAdvance(l)
    /\ UNCHANGED <<file, tmp, lock, now, market_ids, items_file, cyc, probe,
                   starts, crashes, hist>>

\* save_data, line 48: open(JSON_OUTPUT_FILE, "w") empties the live file.
ScriptOpen ==
    /\ script.pc = "open"
    /\ file' = BrokenFile("trunc")
    /\ script' = [script EXCEPT !.pc = "dump"]
    /\ UNCHANGED <<tmp, lock, now, market_ids, items_file, cyc, probe,
                   starts, crashes, hist>>

\* save_data, line 49: json.dump writes the document piece by piece into
\* the live file.
ScriptDump ==
    /\ script.pc = "dump"
    /\ file' = BrokenFile("partial")
    /\ script' = [script EXCEPT !.pc = "close"]
    /\ UNCHANGED <<tmp, lock, now, market_ids, items_file, cyc, probe,
                   starts, crashes, hist>>

\* save_data: the end of the "with" block closes the file, now complete;
\* then time.sleep(5), line 155.
ScriptClose ==
    /\ script.pc = "close"
    /\ file' = OkFile(script.existing_data)
    /\ script' = ScriptAdvance(script)
    /\ UNCHANGED <<tmp, lock, now, market_ids, items_file, cyc, probe,
                   starts, crashes, hist>>

\* The script is killed: the live file stays as the last write left it.
ScriptCrash ==
    /\ script.pc \notin {"idle", "done", "crashed"}
    /\ crashes < MaxCrashes
    /\ crashes' = crashes + 1
    /\ script' = [script EXCEPT !.pc = "crashed"]
    /\ UNCHANGED <<file, tmp, lock, now, market_ids, items_file, cyc, probe,
                   starts, hist>>

\* The script is run again.
ScriptRerun ==
    /\ script.pc \in {"done", "crashed"}
    /\ script' = IdleScript
    /\ UNCHANGED <<file, tmp, lock, now, market_ids, items_file, cyc, probe,
                   starts, crashes, hist>>

\* Records as the script wrote them before the model starts.
ScriptFiles ==
    {AbsentFile,
     OkFile((KRedline :> ScriptRecord(UsdOf(50000), 0 - StaleThreshold - 1))
            @@ (KAsiimov :> ScriptRecord(UsdOf(50000), 0 - StaleThreshold))),
     OkFile((KRedline :> FreshRecord)
            @@ (KAsiimov :> [price_usd |-> UsdOf(50000), last_updated |-> TsGarbage]))}

InitScript ==
    /\ Quiet
    /\ file \in ScriptFiles
    /\ market_ids \in {MarketTable, EmptyTable}
    /\ items_file \in {<<KRedline, KAsiimov>>, <<KKnifeP2, KUnlisted, KAsiimov>>}

NextScript ==
    \/ ScriptStart
    \/ \E r \in FetchResults({50000, 725}) : ScriptItem(r)
    \/ ScriptOpen
    \/ ScriptDump
    \/ ScriptClose
    \/ ScriptCrash
    \/ ScriptRerun
    \/ Tick

SpecScript == InitScript /\ [][NextScript]_vars

\* ========================================================= properties
ItemPcs == {"od_item", "sw_item", "fetch", "upd_acquire", "save_validate",
            "upd_return", "pace"}

\* The keys whose record a request or sweep has persisted so far.
SavedKeys(l) ==
    {(IF l.kind = "od" THEN CorrectSeparator(l.items_list[i]) ELSE l.items_list[i]) :
        i \in {j \in 1..Len(l.outcomes) : l.outcomes[j] = "saved"}}

\* C1: no lost update.  Whatever the interleaving of requests and sweeps,
\* the cache file holds, for every key, the record that the last successful
\* write of that key stored: no write of one key removes or reverts the
\* record another request or sweep persisted for another key.
NoLostUpdate ==
    \A k \in DOMAIN hist.persisted :
        /\ file.st = "ok"
        /\ k \in DOMAIN file.doc
        /\ file.doc[k] = hist.persisted[k]

\* C1, the case: two requests or sweeps have both finished, each persisted
\* a key the other did not, one of them wrote while the other was between
\* its staleness check and its own write, and both records are in the file.
BothUpdatesPresent ==
    /\ hist.raced
    /\ cyc["c1"].pc = "done" /\ cyc["c2"].pc = "done"
    /\ \E a \in SavedKeys(cyc["c1"]), b \in SavedKeys(cyc["c2"]) :
          /\ a # b
          /\ a \notin SavedKeys(cyc["c2"]) /\ b \notin SavedKeys(cyc["c1"])
          /\ {a, b} \subseteq DOMAIN ReadDoc(file)

\* C2: the staleness check and the write of a key happen inside one lock
\* acquisition: while a request or sweep has found a key stale and has not
\* yet entered its own write, no other one holds the lock.
CheckAndWriteInOneAcquisition ==
    \A c, d \in Cycles :
        (c # d /\ cyc[c].pc \in {"fetch", "upd_acquire"}) => lock # d

\* C3: at every point of every write, and after a crash at any step of
\* it, the live cache file is absent or a complete document, never empty
\* or partly written.
LiveFileAlwaysComplete == file.st \in {"absent", "ok"}

\* C4: when the read-back of the temporary file reports another number of
\* entries than the mapping to be written, save_data_atomic returns False,
\* the live file is what it was, and the temporary file is removed, not
\* promoted.
MismatchLeavesLiveFile ==
    [][\A c \in Cycles :
          (/\ cyc[c].pc = "save_validate"
           /\ cyc'[c].pc = "upd_return"
           /\ cyc'[c].validated # Cardinality(DOMAIN cyc[c].data))
          => (file' = file /\ tmp' = NoTmp /\ ~cyc'[c].success)]_vars

\* C4, the case: a save was refused for a count mismatch, the key to be
\* written is not in the live file, and no temporary file is left.
MismatchRefused ==
    \E c \in Cycles :
        /\ cyc[c].pc = "upd_return"
        /\ cyc[c].validated \notin {NoCount, Cardinality(DOMAIN cyc[c].data)}
        /\ ~cyc[c].success
        /\ tmp = NoTmp
        /\ file.st = "ok"
        /\ cyc[c].item_key \notin DOMAIN file.doc

\* C5: is_stale gives True, without raising, for a missing and for an
\* unparseable timestamp, and for a timestamp with an offset gives True
\* exactly when now - timestamp exceeds the threshold.  (For a timestamp
\* without offset only "does not raise" is asked.)
IsStaleContract ==
    probe.impl # "none" =>
        CASE probe.ts.kind \in {"none", "empty", "garbage", "number"} ->
                probe.result = "stale"
          [] probe.ts.kind = "aware" ->
                probe.result = (IF probe.now - probe.ts.t > StaleThreshold
                                THEN "stale" ELSE "fresh")
          [] OTHER -> probe.result \in {"stale", "fresh"}

\* The three per-item failures of scrape_buff_price.
ItemFailures == {"LookupNotFound", "PhaseUnsupported", "FetchExhausted"}

\* C6: scrape_buff_price loads the page at most MAX_SCRAPE_RETRIES times
\* for one key, makes no attempt after a successful one, and returns no
\* price after fetching exactly when all MAX_SCRAPE_RETRIES attempts have
\* failed: each failure, of whatever kind, takes one attempt and none ends
\* the loop early.
BoundedAttempts ==
    \A c \in Cycles :
        LET l == cyc[c] IN
        /\ l.fetches <= MAX_SCRAPE_RETRIES
        /\ l.fetches - l.fails \in {0, 1}
        /\ l.attempt = l.fails
        /\ l.pc = "fetch" => (l.fetches = l.fails /\ l.fails < MAX_SCRAPE_RETRIES)
        /\ l.fetches > l.fails => (l.pc # "fetch" /\ l.usd_price # NoPrice)
        /\ (l.outcome = "FetchExhausted") <=> (l.fails = MAX_SCRAPE_RETRIES)
        /\ (l.fetches > 0 /\ l.pc # "fetch" /\ l.usd_price = NoPrice)
              => l.fails = MAX_SCRAPE_RETRIES

\* C6, the case: all the attempts for a key have failed, and nothing but
\* that ended the loop.
AllAttemptsFailed ==
    \E c \in Cycles :
        /\ cyc[c].outcome = "FetchExhausted"
        /\ cyc[c].fetches = MAX_SCRAPE_RETRIES
        /\ cyc[c].fails = MAX_SCRAPE_RETRIES
        /\ cyc[c].pc = "pace"

\* C7: no step of a refresh that is fetching, or that has ended with all
\* its attempts failed, changes the cache file: the key's record, or its
\* absence, and every other key's record stay as they are.
ExhaustedLeavesCache ==
    [][\A c \in Cycles :
          (/\ cyc'[c] # cyc[c]
           /\ \/ cyc[c].pc = "fetch"
              \/ cyc[c].outcome = "FetchExhausted"
              \/ cyc'[c].outcome = "FetchExhausted")
          => file' = file]_vars

\* C7, the case: the refresh of a key that has no record ended with all
\* attempts failed, and the file still has no record for it.
ExhaustedKeyStillAbsent ==
    \E c \in Cycles :
        /\ cyc[c].outcome = "FetchExhausted"
        /\ cyc[c].pc = "pace"
        /\ cyc[c].item_key \notin DOMAIN ReadDoc(file)
        /\ file \in {AbsentFile} \cup {f.file : f \in BatchFiles}

\* C8: whenever scrape_buff_price finds a phase in the name and the
\* market entry of the base item has phase tags, it returns no price as
\* PhaseUnsupported and the page is never loaded, whatever the letter case
\* of the phase and whether or not that phase is among the entry's tags.
PhasedLookupAlwaysDeclined ==
    \A c \in Cycles :
        LET l == cyc[c]
            m == PhaseMatch(l.item_key)
            base == CorrectSeparator(IF m # <<>> THEN m[1].base ELSE l.item_key)
        IN  (/\ l.pc \in {"fetch", "upd_acquire", "save_validate", "upd_return", "pace"}
             /\ m # <<>>
             /\ base \in DOMAIN market_ids
             /\ market_ids[base].has_buff
             /\ market_ids[base].has_phase)
            => (l.outcome = "PhaseUnsupported" /\ l.fetches = 0 /\ l.usd_price = NoPrice)

\* C9: a per-item failure does not end a batch.  After an item that ended
\* in LookupNotFound, PhaseUnsupported or FetchExhausted the loop takes the
\* next item of its list if there is one, and a request or sweep that has
\* returned normally has dealt with every item of its list.
FailuresDoNotAbortBatch ==
    /\ [](\A c \in Cycles :
            (/\ cyc[c].pc = "done"
             /\ cyc[c].response # <<>>
             /\ cyc[c].response[1].status \in {"success", "completed"})
            => Len(cyc[c].outcomes) = Len(cyc[c].items_list))
    /\ [][\A c \in Cycles :
            (/\ cyc[c].pc = "pace"
             /\ cyc[c].outcome \in ItemFailures
             /\ cyc'[c] # cyc[c]
             /\ cyc'[c].pc # "idle")
            => IF cyc[c].idx < Len(cyc[c].items_list)
               THEN /\ cyc'[c].pc \in {"od_item", "sw_item"}
                    /\ cyc'[c].idx = cyc[c].idx + 1
               ELSE cyc'[c].pc \in {"od_final", "done"}]_vars

\* C9, the case: a batch has returned in which each of the three failures
\* happened and a later item was scraped and stored.
BatchSurvivedFailures ==
    \E c \in Cycles :
        /\ cyc[c].pc = "done"
        /\ cyc[c].response # <<>>
        /\ cyc[c].response[1].status \in {"success", "completed"}
        /\ ItemFailures \subseteq {cyc[c].outcomes[i] : i \in 1..Len(cyc[c].outcomes)}
        /\ cyc[c].outcomes[Len(cyc[c].outcomes)] = "saved"

\* C10, as claimed: once the store of a record has failed the cycle
\* stops; no later key of it is checked, fetched or written.
StoreFailureAbortsCycle ==
    \A c \in Cycles :
        (\E i \in 1..Len(cyc[c].outcomes) : cyc[c].outcomes[i] = "SaveFailed")
            => cyc[c].pc \in {"od_final", "done"}

\* C10, amended: a failed store leaves the cache file with its prior
\* content and is not counted as a scraped item, and the cycle does not
\* stop but goes on with the next key of its list.
StoreFailureKeepsFileAndContinues ==
    [][\A c \in Cycles :
          LET l == cyc[c]
              l2 == cyc'[c]
          IN
          /\ (l.pc \in {"upd_acquire", "save_validate"} /\ l2.outcome = "SaveFailed")
                => file' = file
          /\ (l.pc = "upd_return" /\ l.outcome = "SaveFailed" /\ l2.pc = "pace")
                => l2.items_actually_scraped = l.items_actually_scraped
          /\ (l.pc = "pace" /\ l.outcome = "SaveFailed" /\ l2 # l /\ l2.pc # "idle")
                => IF l.idx < Len(l.items_list)
                   THEN l2.pc \in {"od_item", "sw_item"} /\ l2.idx = l.idx + 1
                   ELSE l2.pc \in {"od_final", "done"}]_vars

\* C10, the case: in one cycle the store of a record failed and a later
\* key was scraped and stored.
StoredAfterStoreFailure ==
    \E c \in Cycles :
        \E i, j \in 1..Len(cyc[c].outcomes) :
            /\ i < j
            /\ cyc[c].outcomes[i] = "SaveFailed"
            /\ cyc[c].outcomes[j] = "saved"

\* C11: a sweep never raises to the scheduler.  Whatever failed inside it
\* (no market table, unreadable cache, is_stale raising, failed fetches,
\* failed saves), a sweep that has ended has returned normally and holds
\* no lock, so the next sweep starts from the file alone.
SweepReturnsNormally ==
    \A c \in Cycles :
        (cyc[c].kind = "sw" /\ cyc[c].pc = "done")
            => /\ cyc[c].response # <<>>
               /\ cyc[c].response[1].status \in {"no_market", "no_stale", "error", "completed"}
               /\ lock # c

\* C11, the case: an exception was raised inside a sweep, and the sweep
\* has returned with the lock free.
SweepSurvivedException ==
    \E c \in Cycles :
        /\ cyc[c].kind = "sw" /\ cyc[c].pc = "done"
        /\ cyc[c].response[1].status = "error"
        /\ lock = NoOne

\* The request of c was for one key, and has been answered.
AnsweredRequest(c) ==
    /\ cyc[c].kind = "od" /\ cyc[c].pc = "done"
    /\ cyc[c].item_to_scrape # <<>>
    /\ cyc[c].response # <<>>

\* The outcomes after which the endpoint has no record to return.
NotObtained == ItemFailures \cup {"NoBuffId", "SaveFailed"}

\* C12, as claimed: a request for one key is always answered with a
\* success response with its stats, and without a record when the item
\* could not be obtained.
RequestAlwaysSucceeds ==
    \A c \in Cycles :
        (cyc[c].kind = "od" /\ cyc[c].pc = "done" /\ cyc[c].item_to_scrape # <<>>)
            => /\ cyc[c].response # <<>>
               /\ cyc[c].response[1].status = "success"

\* C12, amended: a request for one key is answered with an error response
\* exactly when the market table is not loaded or the staleness check of
\* the key raises; otherwise with a success response whose stats are
\* filled in, and which has no record when the item could not be obtained
\* (not in the market table, phase declined, attempts exhausted, save
\* failed).
RequestAnswered ==
    \A c \in Cycles :
        (cyc[c].kind = "od" /\ cyc[c].pc = "done" /\ cyc[c].item_to_scrape # <<>>)
            => LET l == cyc[c]
                   key == CorrectSeparator(l.item_to_scrape)
                   cache == ReadDoc(file)
                   raises == /\ key \in DOMAIN cache
                             /\ Truthy(GetTs(cache[key], "timestamp"))
                             /\ is_stale(GetTs(cache[key], "timestamp"), now) = "raise"
               IN  /\ l.response # <<>>
                   /\ l.response[1].status \in {"success", "error"}
                   /\ (l.response[1].status = "error") <=> (market_ids = EmptyTable \/ raises)
                   /\ l.response[1].status = "success" =>
                        /\ Len(l.outcomes) = 1
                        /\ l.response[1].total_items = Cardinality(DOMAIN cache)
                        /\ l.response[1].items_scraped + l.response[1].items_from_cache = 1
                        /\ l.outcomes[1] \in NotObtained =>
                             (l.response[1].data = <<>> /\ l.response[1].items_scraped = 0)

\* C12, the case: the requested key was fetched three times in vain and
\* the request was answered with success, stats and no record.
AnsweredWithoutRecord ==
    \E c \in Cycles :
        /\ AnsweredRequest(c)
        /\ cyc[c].response[1].status = "success"
        /\ cyc[c].outcomes = <<"FetchExhausted">>
        /\ cyc[c].response[1].data = <<>>
        /\ cyc[c].response[1].items_from_cache = 1

\* What the staleness policy asks for a timestamp with an offset, and for
\* a missing or unparseable one.
FreshByContract(ts, at) == ts.kind = "aware" /\ at - ts.t <= StaleThreshold

StaleByContract(ts, at) ==
    \/ ts.kind \in {"none", "empty", "garbage"}
    \/ ts.kind = "aware" /\ at - ts.t > StaleThreshold

\* The timestamp the cache file has for key: TsNone when it has no record.
CachedTs(key) ==
    IF key \in DOMAIN ReadDoc(file)
    THEN GetTs(ReadDoc(file)[key], "timestamp") ELSE TsNone

\* C13: a request for one key whose cached record is fresh is served from
\* the cache: no page is loaded, the file is not written, the record
\* returned is the cached one.  When the key has no record, a stale one or
\* one without timestamp, scrape_buff_price is entered for that key; and
\* a request that was answered has dealt with that one key, once.
RequestedKeyServedOrRefreshed ==
    /\ [](\A c \in Cycles :
            (AnsweredRequest(c) /\ cyc[c].response[1].status = "success")
                => /\ Len(cyc[c].outcomes) = 1
                   /\ cyc[c].outcomes[1] = "cached"
                        => /\ cyc[c].response[1].items_scraped = 0
                           /\ cyc[c].response[1].data
                                = <<ReadDoc(file)[CorrectSeparator(cyc[c].item_to_scrape)]>>)
    /\ [][\A c \in Cycles :
            (/\ cyc[c].pc = "od_item"
             /\ cyc[c].item_to_scrape # <<>>
             /\ cyc'[c] # cyc[c]
             /\ cyc'[c].pc # "idle")
            => LET key == CorrectSeparator(cyc[c].item_to_scrape)
                   l2 == cyc'[c]
               IN  /\ file' = file
                   /\ FreshByContract(CachedTs(key), now)
                        => /\ l2.pc = "od_final"
                           /\ l2.outcomes = <<"cached">>
                           /\ l2.fetches = 0
                           /\ l2.scraped_item_data = <<ReadDoc(file)[key]>>
                   /\ StaleByContract(CachedTs(key), now)
                        => /\ l2.pc \in {"fetch", "pace"}
                           /\ l2.item_key = key
                           /\ l2.outcomes = <<>>]_vars

\* C13, the case: a request for a key whose record is exactly as old as
\* the threshold was answered from the cache.
ServedFromCache ==
    \E c \in Cycles :
        /\ AnsweredRequest(c)
        /\ cyc[c].outcomes = <<"cached">>
        /\ cyc[c].response[1].data = <<EdgeRecord>>
        /\ now = 0

\* The elements of a sequence.
Elements(seq) == {seq[i] : i \in 1..Len(seq)}

\* C14: a sweep that finds the market table takes for refreshing, once
\* each, every key of the cache file whose record is stale (timestamp
\* missing, unparseable or older than the threshold), no key whose record
\* is fresh, and no key that is not in the cache file.
SweepRefreshesEveryStaleKey ==
    [][\A c \in Cycles :
          (cyc[c].pc = "idle" /\ cyc'[c].kind = "sw" /\ market_ids # EmptyTable)
          => LET taken == cyc'[c].items_list IN
             /\ \A k \in DOMAIN ReadDoc(file) :
                   /\ StaleByContract(CachedTs(k), now) => k \in Elements(taken)
                   /\ FreshByContract(CachedTs(k), now) => k \notin Elements(taken)
             /\ Elements(taken) \subseteq DOMAIN ReadDoc(file)
             /\ Cardinality(Elements(taken)) = Len(taken)]_vars

\* C15: the keys of the cache file are never fewer after a step than
\* before it, and a record is new or changed only by the step that stores
\* the successful scrape of its key; serving from the cache, failed
\* scrapes, failed saves and status reads change no record.
RecordLifecycle ==
    [][/\ file.st = "ok" => (file'.st = "ok" /\ DOMAIN file.doc \subseteq DOMAIN file'.doc)
       /\ \A k \in DOMAIN ReadDoc(file') :
            (k \notin DOMAIN ReadDoc(file) \/ file'.doc[k] # file.doc[k])
            => \E c \in Cycles :
                 /\ cyc[c].pc = "save_validate"
                 /\ cyc[c].item_key = k
                 /\ cyc'[c].outcome = "saved"
                 /\ cyc[c].usd_price # NoPrice
                 /\ file'.doc[k] = BackendRecord(cyc[c].yuan_price, cyc[c].usd_price,
                                                 file'.doc[k].timestamp.t)]_vars

\* C15, the case: one key has a new record, the other still its old one
\* after a failed scrape or save, and the status has been read.
OneRecordReplaced ==
    /\ probe.impl = "data_status"
    /\ file.st = "ok"
    /\ file.doc[KAsiimov] = StaleRecord
    /\ KRedline \in DOMAIN hist.persisted
    /\ file.doc[KRedline] = hist.persisted[KRedline]
    /\ file.doc[KRedline] # StaleRecord
    /\ \E c \in Cycles :
          cyc[c].pc = "done" /\ cyc[c].outcomes \in {<<"FetchExhausted">>, <<"SaveFailed">>}

\* The worker is at a "with lock:" (load_existing_data or
\* update_item_data_safely) and another worker holds the lock.
WaitsForLock(c) ==
    /\ cyc[c].pc \in {"od_item", "od_final", "upd_acquire"}
    /\ lock \notin {NoOne, c}

\* C16: a cycle that does not get the lock does not wait without end: it
\* can give up, with a lock-timeout error for its caller and without
\* reading or writing the cache, so it always has a step of its own.
LockWaitCanTimeOut ==
    \A c \in Cycles :
        WaitsForLock(c) => ENABLED (Step(c, {KRedline, KAsiimov}, {50000}))

\* C17: the lock is released on every way out of a guarded read or a
\* guarded update: a worker holds the lock only while it is inside
\* update_item_data_safely, and not after it, whether the update stored
\* its record, failed to save or raised inside the block.
LockReleasedOnExit ==
    /\ lock \in Cycles \cup {NoOne}
    /\ \A c \in Cycles : lock = c => cyc[c].pc \in {"save_validate", "upd_return"}

\* C17, the case: json.load raised inside the guarded block on a cache
\* file that is not JSON, the update has returned False, and the lock is
\* free.
LockFreeAfterException ==
    \E c \in Cycles :
        /\ cyc[c].pc = "pace"
        /\ cyc[c].outcome = "SaveFailed"
        /\ file.st = "corrupt"
        /\ lock = NoOne

\* C18: a refresh given a name in the uncorrected form ("X Doppler Phase
\* 2") ends as a refresh given the corrected form ("X Doppler - Phase 2")
\* does: the same refusal, or a fetch of the same market id, in a request
\* and in a sweep alike.
UncorrectedResolvesAsCorrected ==
    \A c \in Cycles :
        LET l == cyc[c] IN
        (l.pc \in {"fetch", "upd_acquire", "save_validate", "upd_return", "pace"}
         /\ CorrectSeparator(l.items_list[l.idx]) # l.items_list[l.idx])
        => LET corrected == Resolve(CorrectSeparator(l.items_list[l.idx]), market_ids)
           IN  IF corrected.outcome = "fetch"
               THEN /\ l.buff_id = corrected.buff_id
                    /\ l.outcome \notin {"LookupNotFound", "NoBuffId", "PhaseUnsupported"}
               ELSE l.outcome = corrected.outcome /\ l.fetches = 0


\* C19: round trip.  Whenever save_data_atomic succeeds on a mapping m
\* (the data the worker handed it), what load_existing_data then reads
\* from the file is m: the same keys, and the same record for each key.
SaveThenLoadGivesSame ==
    [][\A c \in Cycles :
          (cyc[c].pc = "save_validate" /\ cyc'[c].outcome = "saved")
          => (file'.st = "ok" /\ ReadDoc(file') = cyc[c].data)]_vars

\* A save of a mapping of three keys has succeeded.
SavedThreeKeys ==
    \E c \in Cycles :
        /\ cyc[c].pc = "upd_return"
        /\ cyc[c].outcome = "saved"
        /\ Cardinality(DOMAIN cyc[c].data) >= 3
        /\ ReadDoc(file) = cyc[c].data


\* A record with exactly the fields yuan_price, usd_price and timestamp,
\* for the reading yuan, stamped with a UTC instant not after the instant
\* at which the record is in the file.
CompleteRecord(rec, yuan, at) ==
    /\ DOMAIN rec = {"yuan_price", "usd_price", "timestamp"}
    /\ rec.yuan_price = yuan
    /\ rec.usd_price = UsdOf(yuan)
    /\ rec.timestamp.kind = "aware"
    /\ rec.timestamp.t <= at

\* C20: every record a refresh path persists -- the service's
\* update_item_data_safely and the script's run_automated_scrape -- has
\* the fields yuan_price, usd_price and timestamp, with yuan_price the
\* reading, usd_price = round(yuan_price * 0.13937312, 2) and timestamp
\* the UTC instant of the scrape.
PersistedRecordComplete ==
    [][/\ \A c \in Cycles :
            (cyc[c].pc = "save_validate" /\ cyc'[c].outcome = "saved")
            => /\ cyc[c].item_key \in DOMAIN ReadDoc(file')
               /\ CompleteRecord(ReadDoc(file')[cyc[c].item_key],
                                 cyc[c].yuan_price, now)
       /\ (script.pc = "close" /\ script'.pc \in {"item", "done"})
            => /\ script.items[script.idx] \in DOMAIN ReadDoc(file')
               /\ \E yuan \in {50000, 725} :
                      CompleteRecord(ReadDoc(file')[script.items[script.idx]],
                                     yuan, now)]_vars


\* C21: between two consecutive attempts on the page for the same key the
\* inter-attempt delay has elapsed, whatever ended the earlier attempt: an
\* exception, a missing price element, or a price text that does not parse.
DelayBetweenAttempts ==
    \A c \in Cycles :
        (cyc[c].pc = "fetch" /\ cyc[c].attempt > 0)
        => cyc[c].slept >= RETRY_DELAY_SECONDS


\* C22: within one batch, when the loop is at a key and a scrape was
\* attempted for an earlier key of the batch, the pacing delay has been
\* slept since the last scrape operation, whatever its outcome was: no
\* two keys of a batch are scraped without the delay between them.
PacedBetweenKeys ==
    \A c \in Cycles :
        LET l == cyc[c] IN
        (/\ l.pc \in {"od_item", "sw_item"}
         /\ \E i \in DOMAIN l.outcomes : l.outcomes[i] # "cached")
        => l.slept >= PACING_DELAY_SECONDS

\* A batch is at its third key after a stored record and a failed key.
PacedAfterFailedKey ==
    \E c \in Cycles :
        LET l == cyc[c] IN
        /\ l.pc \in {"od_item", "sw_item"}
        /\ Len(l.outcomes) >= 2
        /\ \E i \in DOMAIN l.outcomes : l.outcomes[i] = "saved"
        /\ l.outcomes[Len(l.outcomes)] \in NotObtained
        /\ l.slept = PACING_DELAY_SECONDS


\* The phase tokens of the contract, folded: Phase 1..Phase 4, Ruby,
\* Sapphire, Black Pearl.
EnumeratedPhases ==
    {"phase 1", "phase 2", "phase 3", "phase 4", "ruby", "sapphire", "black pearl"}

\* The name is "<base> - <token>" with a token of the enumerated set.
EndsWithPhase(name) ==
    /\ Len(name) >= 5
    /\ SubSeq(name, Len(name) - 3, Len(name) - 1) = <<SP, DASH, SP>>
    /\ CaseFold(name[Len(name)]) \in EnumeratedPhases

\* C23: the split gives (base, phase) exactly when the name ends with
\* " - <PhaseToken>", the token being, whatever its case, one of Phase 1
\* .. Phase 4, Ruby, Sapphire, Black Pearl; every other name is left
\* whole, without a phase.
SplitPhaseContract ==
    probe.impl = "split_phase" =>
        LET name == probe.result.name
            m == probe.result.match
        IN  IF EndsWithPhase(name)
            THEN /\ m # <<>>
                 /\ m[1].base = SubSeq(name, 1, Len(name) - 4)
                 /\ CaseFold(m[1].phase) = CaseFold(name[Len(name)])
            ELSE m = <<>>


\* C24: when a request names a key and the scrape and the save of that
\* key succeeded, the response carries the record just persisted for the
\* key, also when the request gave the name without the separator that
\* the endpoint puts in before it uses the name as the cache key.
RequestedRecordReturned ==
    \A c \in Cycles :
        (AnsweredRequest(c) /\ cyc[c].outcomes = <<"saved">>)
        => LET key == CorrectSeparator(cyc[c].item_to_scrape)
               data == cyc[c].response[1].data
           IN  /\ key \in DOMAIN hist.persisted
               /\ data # <<>>
               /\ data[1].yuan_price = hist.persisted[key].yuan_price
               /\ data[1].usd_price = UsdOf(data[1].yuan_price)
               /\ FreshByContract(data[1].timestamp, now)


\* How many items of the batch ended with the outcome o.
CountOutcome(outcomes, o) ==
    Cardinality({i \in DOMAIN outcomes : outcomes[i] = o})

\* C25: in the stats of an answered on-demand refresh, items_scraped is
\* the number of keys scraped and persisted, and items_from_cache the
\* number of keys served from a fresh cached record; a key whose scrape
\* or save failed is in neither count.
StatsCountOutcomes ==
    \A c \in Cycles :
        LET l == cyc[c] IN
        (/\ l.kind = "od" /\ l.pc = "done" /\ l.response # <<>>
         /\ l.response[1].status = "success")
        => /\ l.response[1].items_scraped = CountOutcome(l.outcomes, "saved")
           /\ l.response[1].items_from_cache = CountOutcome(l.outcomes, "cached")


\* C26: whatever the interleaving of the requests and sweeps that scrape
\* the same key, no save replaces the record of the key by one built from
\* a reading taken before the reading of the record it replaces.
OlderReadingNeverReplacesNewer ==
    [][\A c \in Cycles :
          (cyc[c].pc = "save_validate" /\ cyc'[c].outcome = "saved")
          => cyc[c].later_reading # "stored"]_vars


\* C27: a request or sweep over n keys makes at most 3n attempts on the
\* page and at most n saves, and, its attempts returning and the lock
\* being released by whoever holds it, reaches its return.
CycleTerminates ==
    /\ [](\A c \in Cycles :
            /\ hist.fetched[c] <= MAX_SCRAPE_RETRIES * Len(cyc[c].items_list)
            /\ hist.saves[c] <= Len(cyc[c].items_list))
    /\ \A c \in Cycles : (cyc[c].pc # "idle") ~> (cyc[c].pc = "done")

\* A sweep over two keys has returned after four attempts and one save,
\* while the other worker was running a request.
ReturnedAfterRetries ==
    \E c \in Cycles :
        /\ cyc[c].pc = "done" /\ cyc[c].kind = "sw"
        /\ Len(cyc[c].items_list) = 2
        /\ hist.fetched[c] = MAX_SCRAPE_RETRIES + 1
        /\ hist.saves[c] = 1
        /\ \E d \in Cycles \ {c} : cyc[d].pc \notin {"idle", "done"}

====
